---- MODULE Spec2Model ----
(***************************************************************************)
(* Model of the Brainfuck interpreter of package brainfuck (brainfuck.go).  *)
(*                                                                         *)
(* The package keeps the tape, the data pointer, the instruction index and *)
(* the loop stack in package-level variables; Run validates a source,      *)
(* optionally clears the tape and then dispatches one source character per *)
(* iteration of its loop.  Each iteration of that loop is one action here. *)
(*                                                                         *)
(* Source text is a sequence of one-character strings (ASCII, so that the   *)
(* runes Validate ranges over are the bytes Run indexes).  Go indexes it   *)
(* from 0, so the character at Go index i is code[i + 1].                  *)
(***************************************************************************)
EXTENDS Integers, Sequences, FiniteSets

\* ------------------------------------------------------------------ bounds
\* Length of the tape.  brainfuck.go:30 sets 30000; the model runs the same
\* code on a shorter tape, long enough that the indices FormatCells visits
\* for "!! print" (11, or 12 when the window starts below 0) are distinct.
TapeLength == 13
\* Sources of SpecAll: every string of at most this length.
MaxCodeLen == 4
\* Sources of SpecValidate: every bracket string of at most this length.
MaxValidateLen == 6
\* Run calls made in one behaviour of Spec.
MaxRuns == 3
\* Entries one run may write to standard output before the model stops it.
MaxOut == 4

\* ------------------------------------------------------------ source text
Letters ==
  {"a", "b", "c", "d", "e", "f", "g", "h", "i", "j", "k", "l", "m",
   "n", "o", "p", "q", "r", "s", "t", "u", "v", "w", "x", "y", "z"}

Digits == {"0", "1", "2", "3", "4", "5", "6", "7", "8", "9"}

DigitValue(d) ==
  CASE d = "0" -> 0 [] d = "1" -> 1 [] d = "2" -> 2 [] d = "3" -> 3
    [] d = "4" -> 4 [] d = "5" -> 5 [] d = "6" -> 6 [] d = "7" -> 7
    [] d = "8" -> 8 [] d = "9" -> 9

\* code[i] of the Go source: the character at 0-based index i.
At(src, i) == src[i + 1]

\* Every sequence over alphabet S of length at most n.
StringsUpTo(S, n) == UNION {[1..k -> S] : k \in 0..n}

\* ----------------------------------------------------------------- errors
ErrNone == "none"
ErrNil == "nil"
ErrClose == "Syntax error: closing brace without matched opening brace"
ErrOpen == "Syntax error: opening brace without matching closing brace"

\* ------------------------------------------------------------------ stack
\* github.com/TalkTakesTime/stack: a LIFO; the top is the last element.
Push(s, x) == Append(s, x)
Top(s) == s[Len(s)]
Pop(s) == SubSeq(s, 1, Len(s) - 1)

\* --------------------------------------------------------------- Validate
\* The scan of Validate from 1-based position i with auxiliary stack st.
\* scanned is the number of characters the loop has looked at on return.
\* Mutant: the error of Pop on an empty stack is dropped and the scan goes on.
RECURSIVE ValidateScanDropsPopError(_, _, _)
ValidateScanDropsPopError(src, i, st) ==
  IF i > Len(src)
  THEN [err |-> IF Len(st) # 0 THEN ErrOpen ELSE ErrNil, scanned |-> Len(src)]
  ELSE IF src[i] = "["
       THEN ValidateScanDropsPopError(src, i + 1, Push(st, i - 1))
       ELSE IF src[i] = "]"
            THEN ValidateScanDropsPopError(src, i + 1, Pop(st))
            ELSE ValidateScanDropsPopError(src, i + 1, st)

RECURSIVE ValidateScan(_, _, _)
ValidateScan(src, i, st) ==
  IF i > Len(src)
  THEN [err |-> IF Len(st) # 0 THEN ErrOpen ELSE ErrNil, scanned |-> Len(src)]
  ELSE IF src[i] = "["
       THEN ValidateScan(src, i + 1, Push(st, i - 1))
       ELSE IF src[i] = "]"
            THEN IF st = <<>>
                 THEN [err |-> ErrClose, scanned |-> i]
                 ELSE ValidateScan(src, i + 1, Pop(st))
            ELSE ValidateScan(src, i + 1, st)

\* Mutant: the test of testStack.Length() after the scan is missing.
ValidateNoLengthTest(src) ==
  LET r == ValidateScan(src, 1, <<>>)
  IN [r EXCEPT !.err = IF @ = ErrOpen THEN ErrNil ELSE @]

Validate(src) == ValidateScan(src, 1, <<>>)

\* Before Validate has been called.
NoResult == [err |-> ErrNone, scanned |-> 0]

\* ------------------------------------------------------------------ state
VARIABLES
  tape,       \* the tape: cell index -> byte
  pointer,    \* the position of the pointer on the tape
  index,      \* the position of the current token being executed
  loopStack,  \* positions of the "[" whose loops were entered
  code,       \* the source given to the current (or last) call
  clearTape,  \* the clearTape argument of the current (or last) Run
  pc,         \* "idle", "run", "returned", "panic" or "hang"
  ret,        \* what the last Run returned; ErrNone while none has returned
  vres,       \* result of the last Validate: [err, scanned]
  stdin,      \* the characters standard input holds, as code points
  inPos,      \* how many of them have been read
  output,     \* what the current (or last) Run wrote to standard output
  runs,       \* number of Run calls made
  entryStack, \* the loop stack as the current (or last) Run found it
  parked      \* SpecConc: the locals of the Run call that is not executing

vars ==
  <<tape, pointer, index, loopStack, code, clearTape, pc, ret, vres,
    stdin, inPos, output, runs, entryStack, parked>>

Cells == 0..(TapeLength - 1)

\* What one call of Run holds of its own: its arguments, where it stands,
\* what it returned and wrote, and the loop stack it found.
Locals(c, ct, p, r, v, out, es) ==
  [code |-> c, clearTape |-> ct, pc |-> p, ret |-> r, vres |-> v,
   output |-> out, entryStack |-> es]

\* Streams standard input may hold: empty, "AB", and a NUL followed by a
\* character above 127.
Inputs == {<<>>, <<65, 66>>, <<0, 200>>}

Init ==
  /\ tape = [i \in Cells |-> 0]
  /\ pointer = 0
  /\ index = 0
  /\ loopStack = <<>>
  /\ code = <<>>
  /\ clearTape = FALSE
  /\ pc = "idle"
  /\ ret = ErrNone
  /\ vres = NoResult
  /\ stdin \in Inputs
  /\ inPos = 0
  /\ output = <<>>
  /\ runs = 0
  /\ entryStack = <<>>
  /\ parked = Locals(<<>>, FALSE, "idle", ErrNone, NoResult, <<>>, <<>>)

\* ----------------------------------------------------------------- output
CharOut(b) == [kind |-> "char", idx |-> <<>>, val |-> <<b>>]
NewlineOut == [kind |-> "newline", idx |-> <<>>, val |-> <<>>]
CellsOut(ix, t) ==
  [kind |-> "cells", idx |-> ix, val |-> [k \in 1..Len(ix) |-> t[ix[k]]]]

\* ------------------------------------------------------------- operations
\* MoveLeft, "<": the pointer after the move.
MoveLeft(p) == IF p = 0 THEN TapeLength - 1 ELSE p - 1

\* Mutant: the test for the last cell is missing.
MoveRightNoWrap(p) == p + 1

\* MoveRight, ">": the pointer after the move.
MoveRight(p) == IF p = TapeLength - 1 THEN 0 ELSE p + 1

\* Mutant: the cell is wider than a byte.
IncrementNoWrap(t, p) == [t EXCEPT ![p] = t[p] + 1]

\* Increment, "+": tape[pointer]++ on a byte.
Increment(t, p) == [t EXCEPT ![p] = (t[p] + 1) % 256]

\* Decrement, "-": tape[pointer]-- on a byte.
Decrement(t, p) == [t EXCEPT ![p] = (t[p] + 255) % 256]

\* Input, ",": fmt.Scanf("%c", &tape[pointer]) with the error dropped.  At
\* the end of input, and for a character that does not fit the byte (Scanf
\* reports an overflow above 127), the cell keeps its value.
Input(t, p, in, pos) ==
  IF pos >= Len(in)
  THEN [tape |-> t, inPos |-> pos]
  ELSE IF in[pos + 1] > 127
       THEN [tape |-> t, inPos |-> pos + 1]
       ELSE [tape |-> [t EXCEPT ![p] = in[pos + 1]], inPos |-> pos + 1]

\* Mutant: the position is pushed on a zero cell too.
OpenLoopAlwaysPushes(t, p, st, pos) ==
  [skip |-> t[p] = 0, loopStack |-> Push(st, pos)]

\* Mutant: the position is never pushed.
OpenLoopForgetsPush(t, p, st, pos) ==
  [skip |-> t[p] = 0, loopStack |-> st]

\* OpenLoop, "[": skip tells Run to scan forward to the matching "]".
OpenLoop(t, p, st, pos) ==
  IF t[p] = 0
  THEN [skip |-> TRUE, loopStack |-> st]
  ELSE [skip |-> FALSE, loopStack |-> Push(st, pos)]

\* Mutant: the position after the "[" is returned.
CloseLoopPastOpen(t, p, st) ==
  IF st = <<>>
  THEN [panic |-> TRUE, i |-> -1, loopStack |-> st]
  ELSE [panic |-> FALSE,
        i |-> IF t[p] = 0 THEN -1 ELSE Top(st) + 1,
        loopStack |-> Pop(st)]

\* Mutant: the test of the cell is inverted.
CloseLoopInvertedTest(t, p, st) ==
  IF st = <<>>
  THEN [panic |-> TRUE, i |-> -1, loopStack |-> st]
  ELSE [panic |-> FALSE,
        i |-> IF t[p] # 0 THEN -1 ELSE Top(st),
        loopStack |-> Pop(st)]

\* CloseLoop, "]": pops the loop stack (a panic when it is empty) and
\* returns the popped position, or -1 when the cell under the pointer is 0.
CloseLoop(t, p, st) ==
  IF st = <<>>
  THEN [panic |-> TRUE, i |-> -1, loopStack |-> st]
  ELSE [panic |-> FALSE,
        i |-> IF t[p] = 0 THEN -1 ELSE Top(st),
        loopStack |-> Pop(st)]

\* Mutant: the pointer is not reset.
ClearTapeKeepsPointer == [tape |-> [i \in Cells |-> 0], pointer |-> pointer]

\* ClearTape: every cell 0, pointer 0.
ClearTape == [tape |-> [i \in Cells |-> 0], pointer |-> 0]

\* The forward scan of case "[" in Run, from Go index idx with depth
\* entries on skipStack: index += 1, then the read of code[index].  ok is
\* FALSE when that read is out of range (a panic in Go).
\* Mutant: the scan stops at the first "]", nested or not.
RECURSIVE SkipScanFirstClose(_, _, _)
SkipScanFirstClose(src, idx, depth) ==
  LET i == idx + 1 IN
  IF i >= Len(src)
  THEN [ok |-> FALSE, index |-> i]
  ELSE IF At(src, i) = "]"
       THEN [ok |-> TRUE, index |-> i]
       ELSE SkipScanFirstClose(src, i, depth)

RECURSIVE SkipScan(_, _, _)
SkipScan(src, idx, depth) ==
  LET i == idx + 1 IN
  IF i >= Len(src)
  THEN [ok |-> FALSE, index |-> i]
  ELSE IF At(src, i) = "["
       THEN SkipScan(src, i, depth + 1)
       ELSE IF At(src, i) = "]"
            THEN IF depth - 1 = 0
                 THEN [ok |-> TRUE, index |-> i]
                 ELSE SkipScan(src, i, depth - 1)
            ELSE SkipScan(src, i, depth)

\* ----------------------------------------------------- debug instructions
\* The longest prefix of src, from 1-based position i on, made of
\* characters of S.
RECURSIVE TakeWhile(_, _, _)
TakeWhile(src, i, S) ==
  IF i <= Len(src) /\ src[i] \in S
  THEN <<src[i]>> \o TakeWhile(src, i + 1, S)
  ELSE <<>>

\* SpecialInstructionRegex.FindStringSubmatch(code[index:])[1:] for the
\* pattern "^!! ([a-z]+)([0-9]+)?": <<name, digits>>, or <<>> when the
\* pattern does not match.
MatchSpecial(src, idx) ==
  IF /\ idx + 3 <= Len(src)
     /\ At(src, idx) = "!"
     /\ At(src, idx + 1) = "!"
     /\ At(src, idx + 2) = " "
  THEN LET name == TakeWhile(src, idx + 4, Letters)
           digits == TakeWhile(src, idx + 4 + Len(name), Digits)
       IN IF name = <<>> THEN <<>> ELSE <<name, digits>>
  ELSE <<>>

\* strconv.Atoi on a string of decimal digits: an error on the empty string.
\* (The sources of the model carry few digits; Atoi's range error needs 19.)
RECURSIVE AtoiValue(_)
AtoiValue(ds) ==
  IF ds = <<>> THEN 0
  ELSE 10 * AtoiValue(SubSeq(ds, 1, Len(ds) - 1)) + DigitValue(ds[Len(ds)])

Atoi(ds) ==
  IF ds = <<>> THEN [err |-> TRUE, n |-> 0] ELSE [err |-> FALSE, n |-> AtoiValue(ds)]

\* The loop of FormatCells: for i := start; i != end+1; i++, resetting i to
\* 0 once it reaches TapeLength.  acc lists the indices formatted so far.
\* Reading tape[i] with i < 0 panics; a loop that has made fuel passes
\* without meeting end+1 never will.
RECURSIVE FormatLoop(_, _, _, _)
FormatLoop(i, stop, acc, fuel) ==
  IF i = stop THEN [kind |-> "ok", idx |-> acc]
  ELSE IF fuel = 0 THEN [kind |-> "hang", idx |-> acc]
  ELSE LET j == IF i >= TapeLength THEN 0 ELSE i IN
       IF j < 0 THEN [kind |-> "panic", idx |-> acc]
       ELSE FormatLoop(j + 1, stop, Append(acc, j), fuel - 1)

\* FormatCells(start, end): the tape indices it formats, in order.
FormatCells(start, end) ==
  LET s == IF start < 0 THEN TapeLength + start - 1 ELSE start
      e == IF end >= TapeLength THEN end - TapeLength ELSE end
  IN FormatLoop(s, e + 1, <<>>, 2 * TapeLength + 2)

NameClear == <<"c", "l", "e", "a", "r">>
NamePrint == <<"p", "r", "i", "n", "t">>
NamePrintn == <<"p", "r", "i", "n", "t", "n">>

\* Mutant: the error of Atoi is dropped, n is 0.
RunSpecialInstructionIgnoresAtoiError(inst, p) ==
  IF inst[1] = NameClear THEN [kind |-> "clear", idx |-> <<>>]
  ELSE IF inst[1] = NamePrint THEN FormatCells(p - 5, p + 5)
  ELSE IF inst[1] = NamePrintn
       THEN LET a == Atoi(inst[2]) IN
            FormatCells(p - (a.n \div 2), p + (a.n \div 2))
  ELSE [kind |-> "none", idx |-> <<>>]

\* RunSpecialInstruction(inst): kind is "none" (nothing happens), "clear",
\* or the outcome of the FormatCells call it prints.
RunSpecialInstruction(inst, p) ==
  IF inst[1] = NameClear THEN [kind |-> "clear", idx |-> <<>>]
  ELSE IF inst[1] = NamePrint THEN FormatCells(p - 5, p + 5)
  ELSE IF inst[1] = NamePrintn
       THEN LET a == Atoi(inst[2]) IN
            IF a.err THEN [kind |-> "none", idx |-> <<>>]
            ELSE FormatCells(p - (a.n \div 2), p + (a.n \div 2))
  ELSE [kind |-> "none", idx |-> <<>>]

\* -------------------------------------------------------------------- Run
\* Run(src, ct) up to its loop: Validate, the early return of its error,
\* ClearTape when ct, index = 0.  Each call starts a fresh output record.
\* Mutant: ClearTape is called before the error of Validate is returned.
RunClearsBeforeValidate(src, ct) ==
  /\ pc \in {"idle", "returned", "panic"}
  /\ runs < MaxRuns
  /\ runs' = runs + 1
  /\ code' = src
  /\ clearTape' = ct
  /\ vres' = Validate(src)
  /\ output' = <<>>
  /\ entryStack' = loopStack
  /\ UNCHANGED parked
  /\ tape' = IF ct THEN ClearTape.tape ELSE tape
  /\ pointer' = IF ct THEN ClearTape.pointer ELSE pointer
  /\ IF Validate(src).err # ErrNil
     THEN /\ ret' = Validate(src).err
          /\ pc' = "returned"
          /\ UNCHANGED <<index, loopStack>>
     ELSE /\ ret' = ErrNone
          /\ pc' = "run"
          /\ index' = 0
          /\ UNCHANGED loopStack
  /\ UNCHANGED <<stdin, inPos>>

Run(src, ct) ==
  /\ pc \in {"idle", "returned", "panic"}
  /\ runs < MaxRuns
  /\ runs' = runs + 1
  /\ code' = src
  /\ clearTape' = ct
  /\ vres' = Validate(src)
  /\ output' = <<>>
  /\ entryStack' = loopStack
  /\ UNCHANGED parked
  /\ IF Validate(src).err # ErrNil
     THEN /\ ret' = Validate(src).err
          /\ pc' = "returned"
          /\ UNCHANGED <<tape, pointer, index, loopStack>>
     ELSE /\ ret' = ErrNone
          /\ pc' = "run"
          /\ index' = 0
          /\ tape' = IF ct THEN ClearTape.tape ELSE tape
          /\ pointer' = IF ct THEN ClearTape.pointer ELSE pointer
          /\ UNCHANGED loopStack
  /\ UNCHANGED <<stdin, inPos>>

\* The read code[index] at the head of the loop is in range.
CanFetch == pc = "run" /\ 0 <= index /\ index < Len(code)

Fetch == At(code, index)

\* The tail of one iteration, reached with the index at i and out written:
\* index += 1, and once index >= codeLen the closing Println and return nil.
Advance(i, out) ==
  /\ index' = i + 1
  /\ IF i + 1 >= Len(code)
     THEN /\ pc' = "returned"
          /\ ret' = ErrNil
          /\ output' = Append(out, NewlineOut)
     ELSE /\ pc' = "run"
          /\ ret' = ret
          /\ output' = out

\* code[index] with the index out of range: Go panics.
FetchPanic ==
  /\ pc = "run"
  /\ ~(0 <= index /\ index < Len(code))
  /\ pc' = "panic"
  /\ UNCHANGED <<tape, pointer, index, loopStack, code, clearTape, ret, vres,
                 stdin, inPos, output, runs>>
  /\ UNCHANGED <<entryStack, parked>>

DoMoveLeft ==
  /\ CanFetch /\ Fetch = "<"
  /\ pointer' = MoveLeft(pointer)
  /\ Advance(index, output)
  /\ UNCHANGED <<tape, loopStack, code, clearTape, vres, stdin, inPos, runs>>
  /\ UNCHANGED <<entryStack, parked>>

DoMoveRight ==
  /\ CanFetch /\ Fetch = ">"
  /\ pointer' = MoveRight(pointer)
  /\ Advance(index, output)
  /\ UNCHANGED <<tape, loopStack, code, clearTape, vres, stdin, inPos, runs>>
  /\ UNCHANGED <<entryStack, parked>>

DoDecrement ==
  /\ CanFetch /\ Fetch = "-"
  /\ tape' = Decrement(tape, pointer)
  /\ Advance(index, output)
  /\ UNCHANGED <<pointer, loopStack, code, clearTape, vres, stdin, inPos, runs>>
  /\ UNCHANGED <<entryStack, parked>>

DoIncrement ==
  /\ CanFetch /\ Fetch = "+"
  /\ tape' = Increment(tape, pointer)
  /\ Advance(index, output)
  /\ UNCHANGED <<pointer, loopStack, code, clearTape, vres, stdin, inPos, runs>>
  /\ UNCHANGED <<entryStack, parked>>

\* Output, ".": fmt.Printf("%c", tape[pointer]).
DoOutput ==
  /\ CanFetch /\ Fetch = "."
  /\ Len(output) < MaxOut
  /\ Advance(index, Append(output, CharOut(tape[pointer])))
  /\ UNCHANGED <<tape, pointer, loopStack, code, clearTape, vres, stdin, inPos,
                 runs>>
  /\ UNCHANGED <<entryStack, parked>>

DoInput ==
  /\ CanFetch /\ Fetch = ","
  /\ tape' = Input(tape, pointer, stdin, inPos).tape
  /\ inPos' = Input(tape, pointer, stdin, inPos).inPos
  /\ Advance(index, output)
  /\ UNCHANGED <<pointer, loopStack, code, clearTape, vres, stdin, runs>>
  /\ UNCHANGED <<entryStack, parked>>

\* case "[": OpenLoop, then the forward scan while skip.
DoOpenLoop ==
  /\ CanFetch /\ Fetch = "["
  /\ LET o == OpenLoop(tape, pointer, loopStack, index)
         s == SkipScan(code, index, 1)
     IN /\ loopStack' = o.loopStack
        /\ IF ~o.skip
           THEN Advance(index, output)
           ELSE IF s.ok
                THEN Advance(s.index, output)
                ELSE /\ pc' = "panic"
                     /\ index' = s.index
                     /\ UNCHANGED <<ret, output>>
  /\ UNCHANGED <<tape, pointer, code, clearTape, vres, stdin, inPos, runs>>
  /\ UNCHANGED <<entryStack, parked>>

\* case "]": CloseLoop, and index = i - 1 when it returns a position.
DoCloseLoop ==
  /\ CanFetch /\ Fetch = "]"
  /\ LET c == CloseLoop(tape, pointer, loopStack)
     IN /\ loopStack' = c.loopStack
        /\ IF c.panic
           THEN /\ pc' = "panic"
                /\ UNCHANGED <<index, ret, output>>
           ELSE IF c.i # -1
                THEN Advance(c.i - 1, output)
                ELSE Advance(index, output)
  /\ UNCHANGED <<tape, pointer, code, clearTape, vres, stdin, inPos, runs>>
  /\ UNCHANGED <<entryStack, parked>>

\* case "!": the regular expression, and RunSpecialInstruction on a match.
DoSpecial ==
  /\ CanFetch /\ Fetch = "!"
  /\ LET match == MatchSpecial(code, index)
         r == IF match = <<>>
              THEN [kind |-> "none", idx |-> <<>>]
              ELSE RunSpecialInstruction(match, pointer)
     IN CASE r.kind = "none" ->
               /\ Advance(index, output)
               /\ UNCHANGED <<tape, pointer>>
          [] r.kind = "clear" ->
               /\ tape' = ClearTape.tape
               /\ pointer' = ClearTape.pointer
               /\ Advance(index, output)
          [] r.kind = "ok" ->
               /\ Len(output) < MaxOut
               /\ Advance(index, Append(output, CellsOut(r.idx, tape)))
               /\ UNCHANGED <<tape, pointer>>
          [] r.kind = "panic" ->
               /\ pc' = "panic"
               /\ UNCHANGED <<tape, pointer, index, ret, output>>
          [] r.kind = "hang" ->
               /\ pc' = "hang"
               /\ UNCHANGED <<tape, pointer, index, ret, output>>
  /\ UNCHANGED <<loopStack, code, clearTape, vres, stdin, inPos, runs>>
  /\ UNCHANGED <<entryStack, parked>>

\* Any other character: no case of the switch applies.
DoOther ==
  /\ CanFetch
  /\ Fetch \notin {"<", ">", "-", "+", ".", ",", "[", "]", "!"}
  /\ Advance(index, output)
  /\ UNCHANGED <<tape, pointer, loopStack, code, clearTape, vres, stdin, inPos,
                 runs>>
  /\ UNCHANGED <<entryStack, parked>>

\* One iteration of the loop of Run.
Step ==
  \/ FetchPanic
  \/ DoMoveLeft
  \/ DoMoveRight
  \/ DoDecrement
  \/ DoIncrement
  \/ DoOutput
  \/ DoInput
  \/ DoOpenLoop
  \/ DoCloseLoop
  \/ DoSpecial
  \/ DoOther

\* ---------------------------------------------------------------- callers
PrintnText == <<"!", "!", " ">> \o NamePrintn

\* Program of the command (interpreter.go): ",[.,]".
CatProgram == <<",", "[", ".", ",", "]">>

\* The sources Spec runs, in any order and with either clearTape.
Programs ==
  { <<>>,
    <<"[">>,
    <<"]", "[">>,
    <<"+", "+", "+", ".">>,
    CatProgram,
    <<"<", "-">>,
    <<"<", ">">>,
    <<"-", "+">>,
    <<"[", "-", "]">>,
    <<"[", "[", "]", "[", "[", "-", "]", "]", "x", "]", ">", "+">>,
    <<"+", "+", "[", ">", "+", "[", "-", "]", "<", "-", "]">>,
    <<"!", "!", " ">> \o NameClear,
    <<"!", "!", " ">> \o NamePrint,
    <<"<", "<", "<", "!", "!", " ">> \o NamePrint,
    PrintnText \o <<"4">>,
    PrintnText,
    PrintnText \o <<"9", "9">>,
    <<"<">> \o PrintnText \o <<"3", "0">>,
    <<"+", "[">> \o PrintnText \o <<"9", "9", "]">>,
    <<"+", "[", "!", "!", " ">> \o NameClear \o <<"]">>,
    <<"!", "!", " ", "z", "a", "p", "+">>,
    <<"!", " ", "!", "!", "+">> }

\* A program calls Run.
RunCall == \E src \in Programs, ct \in BOOLEAN : Run(src, ct)

Next == RunCall \/ Step

Spec == Init /\ [][Next]_vars

\* SpecAll: one Run, on the fresh state, of any source of at most MaxCodeLen
\* characters.
Alphabet == {"<", ">", "+", "-", ".", ",", "[", "]", "!", "x"}

AllSources == StringsUpTo(Alphabet, MaxCodeLen)

RunAny == runs = 0 /\ \E src \in AllSources : Run(src, TRUE)

NextAll == RunAny \/ Step

SpecAll == Init /\ [][NextAll]_vars

\* SpecConc: two calls of Run, each on the state the package starts with
\* and with clearTape, their loop iterations interleaved in any order.  The
\* calls share tape, pointer, index and loopStack, the package variables;
\* Switch hands the processor to the other call.
ConcPrograms ==
  { <<"+", "[", "-", "]", ".">>,
    <<">", ",", "<", "!", "x">> }

RunConc == pc = "idle" /\ \E src \in ConcPrograms : Run(src, TRUE)

Switch ==
  /\ parked' = Locals(code, clearTape, pc, ret, vres, output, entryStack)
  /\ code' = parked.code
  /\ clearTape' = parked.clearTape
  /\ pc' = parked.pc
  /\ ret' = parked.ret
  /\ vres' = parked.vres
  /\ output' = parked.output
  /\ entryStack' = parked.entryStack
  /\ UNCHANGED <<tape, pointer, index, loopStack, stdin, inPos, runs>>

NextConc == RunConc \/ Step \/ Switch

SpecConc == Init /\ [][NextConc]_vars

\* SpecValidate: Validate called on its own, once, on any bracket string of
\* at most MaxValidateLen characters.
BracketSources == StringsUpTo({"[", "]", "x"}, MaxValidateLen)

ValidateCall ==
  /\ pc = "idle"
  /\ vres = NoResult
  /\ \E src \in BracketSources :
       /\ code' = src
       /\ vres' = Validate(src)
  /\ UNCHANGED <<tape, pointer, index, loopStack, clearTape, pc, ret, stdin,
                 inPos, output, runs, entryStack, parked>>

SpecValidate == Init /\ [][ValidateCall]_vars

\* ================================================================= claims
\* Number of characters ch among the first k of src.
CountIn(src, ch, k) == Cardinality({i \in 1..k : src[i] = ch})

\* Opening minus closing brackets among the first k characters of src.
Balance(src, k) == CountIn(src, "[", k) - CountIn(src, "]", k)

\* The brackets of src are properly nested and fully matched.
Balanced(src) ==
  /\ \A k \in 0..Len(src) : Balance(src, k) >= 0
  /\ Balance(src, Len(src)) = 0

\* The positions (1-based) of the first "]" that closes nothing.
FirstUnmatchedClose(src) ==
  {i \in 1..Len(src) :
     /\ Balance(src, i) < 0
     /\ \A j \in 0..(i - 1) : Balance(src, j) >= 0}

\* C1: Validate returns nil exactly for the sources whose "[" and "]" form a
\* properly nested, fully matched sequence; other characters are ignored.
\* (SpecValidate)
C1_ValidateIffBalanced ==
  vres # NoResult => (vres.err = ErrNil <=> Balanced(code))

C1_Witness ==
  /\ code = <<"[", "x", "[", "]", "]", "x">>
  /\ vres.err = ErrNil

\* C2: Validate fails with the unmatched-close error at the first "]" met
\* with an empty stack, having scanned no further, and with the
\* unmatched-open error exactly when the whole source was scanned without
\* such a "]" and the stack is not empty at the end.  (SpecValidate)
C2_ValidateErrors ==
  vres # NoResult =>
    /\ vres.err = ErrClose <=> FirstUnmatchedClose(code) # {}
    /\ vres.err = ErrClose => vres.scanned \in FirstUnmatchedClose(code)
    /\ vres.err = ErrOpen <=>
         /\ FirstUnmatchedClose(code) = {}
         /\ Balance(code, Len(code)) > 0
    /\ vres.err = ErrOpen => vres.scanned = Len(code)

C2_Witness ==
  /\ code = <<"]", "[">>
  /\ vres.err = ErrClose
  /\ vres.scanned = 1

\* C3: Run of a source that Validate rejects returns that error, with either
\* clearTape, and executes nothing: tape, pointer and loop stack are as before
\* the call, nothing is read from input and nothing is written.  (Spec)
C3_RejectedRunDoesNothing ==
  [][(runs' = runs + 1 /\ Validate(code').err # ErrNil) =>
       /\ ret' = Validate(code').err
       /\ pc' = "returned"
       /\ UNCHANGED <<tape, pointer, loopStack, inPos>>
       /\ output' = <<>>]_vars

C3_Witness ==
  /\ pc = "returned"
  /\ ret = ErrOpen
  /\ clearTape
  /\ pointer # 0
  /\ tape[pointer] # 0
  /\ loopStack # <<>>

\* C4: for every source Validate accepts, the empty source included, every
\* read of the source by Run (the read of the dispatch and the reads of the
\* forward scan) is at an index in [0, len(source)).  (Spec; fails on the
\* empty source)
C4_SourceReadsInRange ==
  pc \in {"run", "panic"} => (0 <= index /\ index < Len(code))

\* The closing bracket that matches the "[" at Go index i of src.
RefMatchClose(src, i) ==
  CHOOSE j \in (i + 1)..(Len(src) - 1) :
    /\ Balance(src, j + 1) = Balance(src, i)
    /\ \A k \in (i + 1)..(j - 1) : Balance(src, k + 1) > Balance(src, i)

\* The opening bracket that matches the "]" at Go index j of src.
RefMatchOpen(src, j) ==
  CHOOSE i \in 0..(j - 1) :
    /\ Balance(src, i) = Balance(src, j + 1)
    /\ \A k \in (i + 1)..j : Balance(src, k) > Balance(src, i)

\* C5: a "[" dispatched on a zero cell skips its body: the index goes to the
\* matching "]", however brackets nest inside, and the dispatch that follows
\* is of the character after it; loop stack, tape and pointer do not change.
\* (Spec)
C5_ZeroCellSkipsLoop ==
  [][(CanFetch /\ Fetch = "[" /\ tape[pointer] = 0) =>
       /\ index' = RefMatchClose(code, index) + 1
       /\ UNCHANGED <<loopStack, tape, pointer, inPos>>
       /\ pc' = IF index' < Len(code) THEN "run" ELSE "returned"
       /\ output' = IF pc' = "run" THEN output ELSE Append(output, NewlineOut)]_vars

C5_Witness ==
  /\ code = <<"[", "[", "]", "[", "[", "-", "]", "]", "x", "]", ">", "+">>
  /\ pc = "run"
  /\ index = 10
  /\ pointer = 0
  /\ tape[0] = 0
  /\ loopStack = <<>>

\* The entries of out written by ".".
CharsOf(out) == SelectSeq(out, LAMBDA o : o.kind = "char")

\* One step of the reference machine, which jumps by the bracket-match
\* table: on the character at ip of src, from data pointer dp, tape t, read
\* position pos and "." output out.  It reads input as Input does.
RefStep(src, ip, dp, t, pos, out) ==
  LET ch == At(src, ip)
      base == [ip |-> ip + 1, dp |-> dp, tape |-> t, inPos |-> pos, out |-> out]
  IN CASE ch = "<" -> [base EXCEPT !.dp = (dp - 1) % TapeLength]
       [] ch = ">" -> [base EXCEPT !.dp = (dp + 1) % TapeLength]
       [] ch = "+" -> [base EXCEPT !.tape = [t EXCEPT ![dp] = (t[dp] + 1) % 256]]
       [] ch = "-" -> [base EXCEPT !.tape = [t EXCEPT ![dp] = (t[dp] - 1) % 256]]
       [] ch = "." -> [base EXCEPT !.out = Append(out, CharOut(t[dp]))]
       [] ch = "," -> [base EXCEPT !.tape = Input(t, dp, stdin, pos).tape,
                                   !.inPos = Input(t, dp, stdin, pos).inPos]
       [] ch = "[" -> IF t[dp] = 0
                      THEN [base EXCEPT !.ip = RefMatchClose(src, ip) + 1]
                      ELSE base
       [] ch = "]" -> IF t[dp] # 0
                      THEN [base EXCEPT !.ip = RefMatchOpen(src, ip)]
                      ELSE base
       [] OTHER -> base

C7_CatEchoesInputOnce ==
  (runs = 1 /\ code = CatProgram /\ clearTape /\ stdin = <<65, 66>>) =>
    CharsOf(output) \in {<<>>, <<CharOut(65)>>, <<CharOut(65), CharOut(66)>>}

\* C8: "<" takes the pointer p to (p - 1) mod TapeLength and ">" to
\* (p + 1) mod TapeLength, neither changes the tape, and the pointer is in
\* [0, TapeLength) in every reachable state.  (Spec)
C8_PointerCircular ==
  /\ [](pointer \in Cells)
  /\ [][/\ (CanFetch /\ Fetch = "<") =>
             (pointer' = (pointer - 1) % TapeLength /\ tape' = tape)
        /\ (CanFetch /\ Fetch = ">") =>
             (pointer' = (pointer + 1) % TapeLength /\ tape' = tape)]_vars

C8_Witness ==
  /\ code = <<"<", ">">>
  /\ clearTape
  /\ pc = "returned"
  /\ pointer = 0

\* C9: "+" replaces the cell v under the pointer by (v + 1) mod 256 and "-"
\* by (v - 1) mod 256, without a panic; the other cells and the pointer do
\* not change, and every cell is in 0..255 in every reachable state.  (Spec)
C9_CellArithmeticWraps ==
  /\ [](\A i \in Cells : tape[i] \in 0..255)
  /\ [][/\ (CanFetch /\ Fetch = "+") =>
             /\ tape' = [tape EXCEPT ![pointer] = (tape[pointer] + 1) % 256]
             /\ pointer' = pointer
             /\ pc' # "panic"
        /\ (CanFetch /\ Fetch = "-") =>
             /\ tape' = [tape EXCEPT ![pointer] = (tape[pointer] - 1) % 256]
             /\ pointer' = pointer
             /\ pc' # "panic"]_vars

C9_Witness ==
  /\ code = <<"-", "+">>
  /\ clearTape
  /\ pc = "returned"
  /\ tape[0] = 0

\* The window "!! print" is to show at pointer p: 5 cells before, p, 5
\* after, by the circular rule of the tape.
PrintWindow(p) == [k \in 1..11 |-> (p - 6 + k) % TapeLength]

\* C10: "!! print" at any pointer p emits exactly the 11 index/cell pairs of
\* the indices (p - 5) mod TapeLength .. (p + 5) mod TapeLength, in order.
\* (Spec; fails for p < 5)
C10_PrintShowsElevenCells ==
  [][(/\ CanFetch /\ Fetch = "!"
      /\ MatchSpecial(code, index) # <<>>
      /\ MatchSpecial(code, index)[1] = NamePrint) =>
       /\ Len(output') > Len(output)
       /\ output'[Len(output) + 1] = CellsOut(PrintWindow(pointer), tape)]_vars

\* The dispatch at hand is of a "!" that begins "!! clear".
ClearAtIndex ==
  /\ CanFetch /\ Fetch = "!"
  /\ MatchSpecial(code, index) # <<>>
  /\ MatchSpecial(code, index)[1] = NameClear

ClearProgramInLoop == <<"+", "[", "!", "!", " ">> \o NameClear \o <<"]">>

\* C11: "!! clear", from any reachable state and also inside an entered
\* loop, leaves every cell 0 and the pointer 0 and does not touch the loop
\* stack or the index (which then advances by 1), so that a run entered with
\* an empty loop stack still returns with it empty.  (Spec)
C11_ClearResetsTapeOnly ==
  /\ [][ClearAtIndex =>
          /\ \A i \in Cells : tape'[i] = 0
          /\ pointer' = 0
          /\ loopStack' = loopStack
          /\ index' = index + 1]_vars
  /\ []((pc = "returned" /\ ret = ErrNil /\ entryStack = <<>>) =>
          loopStack = <<>>)

\* Before the "]" of "+[!! clear]", the loop entered and the tape cleared in
\* it, in a run that kept the tape it found.
C11_Witness ==
  /\ code = ClearProgramInLoop
  /\ ~clearTape
  /\ runs > 1
  /\ pc = "run"
  /\ index = 10
  /\ loopStack = <<1>>
  /\ pointer = 0
  /\ \A i \in Cells : tape[i] = 0

\* The reference machine run to its end on src, from ip, dp, t, pos, out.
RECURSIVE SoloRun(_, _, _, _, _, _)
SoloRun(src, ip, dp, t, pos, out) ==
  IF ip >= Len(src)
  THEN [tape |-> t, out |-> out]
  ELSE LET r == RefStep(src, ip, dp, t, pos, out)
       IN SoloRun(src, r.ip, r.dp, r.tape, r.inPos, r.out)

\* What Run(src, TRUE) writes with "." and leaves on the tape when it
\* executes alone.
Solo(src) == SoloRun(src, 0, 0, [i \in Cells |-> 0], 0, <<>>)

\* At most one of the two sources reads standard input, which the two calls
\* have in common whatever the interpreter does.
NoSharedInput ==
  ~(\E i \in 1..Len(code), j \in 1..Len(parked.code) :
      code[i] = "," /\ parked.code[j] = ",")

\* C12: of two Run calls on valid sources whose steps interleave, neither
\* panics, and each returns having written the output, and with the tape,
\* of its execution alone from the same starting state.  (SpecConc; fails,
\* the calls share the package variables)
C12_ConcurrentRunsIndependent ==
  [][parked' = parked =>
       /\ pc' # "panic"
       /\ (pc = "run" /\ pc' = "returned" /\ NoSharedInput) =>
            /\ CharsOf(output') = Solo(code).out
            /\ tape' = Solo(code).tape]_vars

\* C13: a "]" dispatched on a non-zero cell is followed by the dispatch of
\* its matching "[", at position 0 too; dispatched on a zero cell it is
\* followed by the dispatch of the next character, or by the return of Run
\* after the last one.  Either way the loop stack loses exactly its top.
\* (Spec)
C13_CloseLoopJumpsToMatch ==
  [][(CanFetch /\ Fetch = "]") =>
       /\ loopStack # <<>>
       /\ loopStack' = Pop(loopStack)
       /\ IF tape[pointer] # 0
          THEN index' = RefMatchOpen(code, index) /\ pc' = "run"
          ELSE /\ index' = index + 1
               /\ pc' = IF index + 1 < Len(code) THEN "run" ELSE "returned"]_vars

\* Back on the "[" at position 0 of "[-]" after its "]" found the cell at 2.
C13_Witness ==
  /\ code = <<"[", "-", "]">>
  /\ pc = "run"
  /\ index = 0
  /\ tape[pointer] = 2
  /\ loopStack = entryStack

\* The "[" whose bodies enclose Go index i of src.
Enclosing(src, i) ==
  {j \in 0..(i - 1) : At(src, j) = "[" /\ RefMatchClose(src, j) >= i}

\* C14: in a run that starts with an empty loop stack, at every dispatch
\* the loop stack lists, bottom to top, the positions of the "[" whose
\* bodies enclose the index (all of them entered on a non-zero cell, the
\* others having been skipped), and the stack is empty when Run returns.
\* (Spec)
C14_LoopStackIsEnclosingLoops ==
  entryStack = <<>> =>
    /\ CanFetch =>
         /\ Len(loopStack) = Cardinality(Enclosing(code, index))
         /\ \A k \in 1..Len(loopStack) : loopStack[k] \in Enclosing(code, index)
         /\ \A k \in 1..(Len(loopStack) - 1) : loopStack[k] < loopStack[k + 1]
    /\ pc = "returned" => loopStack = <<>>

\* Inside the inner loop of "++[>+[-]<-]".
C14_Witness ==
  /\ entryStack = <<>>
  /\ pc = "run"
  /\ code = <<"+", "+", "[", ">", "+", "[", "-", "]", "<", "-", "]">>
  /\ index = 6
  /\ loopStack = <<2, 5>>

\* C15: no "]" of an accepted source is dispatched on an empty loop stack,
\* and so CloseLoop never panics, whatever the tape, the input and the runs
\* before left behind.  (Spec)
C15_CloseLoopNeverPanics ==
  (CanFetch /\ Fetch = "]") =>
    /\ loopStack # <<>>
    /\ ~CloseLoop(tape, pointer, loopStack).panic

\* The "]" of "[-]" about to be dispatched in a run that follows a run that
\* panicked inside a loop.
C15_Witness ==
  /\ code = <<"[", "-", "]">>
  /\ pc = "run"
  /\ index = 2
  /\ entryStack # <<>>
  /\ Len(loopStack) = Len(entryStack) + 1

\* C16: every run of an accepted source makes its first dispatch with an
\* empty loop stack and index 0, and with tape and pointer zero under
\* clearTape, whatever the runs before did.  (Spec; fails, the loop stack
\* survives a run that ends in a panic inside a loop)
C16_RunStartsFresh ==
  [][(runs' = runs + 1 /\ pc' = "run") =>
       /\ loopStack' = <<>>
       /\ index' = 0
       /\ clearTape' =>
            /\ \A i \in Cells : tape'[i] = 0
            /\ pointer' = 0]_vars

\* A "!" at Go index i of src begins a debug instruction that does
\* something: "!! " and a name, the longest run of lower-case letters,
\* which is clear or print, or printn with a digit after it.
Recognised(src, i) ==
  \E n \in 1..Len(src) :
    /\ i + 3 + n <= Len(src)
    /\ At(src, i + 1) = "!"
    /\ At(src, i + 2) = " "
    /\ \A k \in 0..(n - 1) : At(src, i + 3 + k) \in Letters
    /\ i + 3 + n < Len(src) => At(src, i + 3 + n) \notin Letters
    /\ LET name == SubSeq(src, i + 4, i + 3 + n)
       IN \/ name \in {NameClear, NamePrint}
          \/ /\ name = NamePrintn
             /\ i + 3 + n < Len(src)
             /\ At(src, i + 3 + n) \in Digits

\* The character about to be dispatched is none of the eight instructions
\* and no "!" that begins a recognised debug instruction.
InertAtIndex ==
  /\ CanFetch
  /\ Fetch \notin {"<", ">", "+", "-", ".", ",", "[", "]"}
  /\ Fetch = "!" => ~Recognised(code, index)

\* C17: the dispatch of an inert character (any other character, a "!"
\* where the pattern does not match, an unknown name, printn without a
\* number, the text of a debug instruction) changes neither tape, pointer
\* nor loop stack, reads and writes nothing, and moves the index by 1; the
\* only output is the newline Run writes when the character was the last.
\* (Spec)
C17_InertCharacters ==
  [][InertAtIndex =>
       /\ UNCHANGED <<tape, pointer, loopStack, inPos>>
       /\ index' = index + 1
       /\ IF index + 1 < Len(code)
          THEN pc' = "run" /\ output' = output
          ELSE pc' = "returned" /\ output' = Append(output, NewlineOut)]_vars

\* "!! printn" dispatched to its end on a tape an earlier run left non-zero.
C17_Witness ==
  /\ code = PrintnText
  /\ ~clearTape
  /\ pc = "returned"
  /\ ret = ErrNil
  /\ index = Len(PrintnText)
  /\ output = <<NewlineOut>>
  /\ tape[0] = 3

====
